---- MODULE Spec2Model ----
(***************************************************************************)
(* Castagnos-Laguillaumie encryption over the class group of an imaginary  *)
(* quadratic order: the composition routine inner_multiply2 with its       *)
(* scratch context, reduction, power, the f^m fast path with its discrete  *)
(* logarithm, and the CL protocol (keygen, encrypt, decrypt, eval_scal,    *)
(* eval_sum, encrypt_without_r).                                           *)
(*                                                                         *)
(* Integers are arbitrary precision (Mpz), so no width is modelled.  The   *)
(* 1827-bit and 3072-bit groups are replaced by groups of the same shape   *)
(* with small parameters: q an odd prime, delta_k = -q*q~ = 1 (mod 4),     *)
(* |delta_k| >= 4q^2 - 1, discriminant = delta_k * q^2.                    *)
(***************************************************************************)
EXTENDS Integers, Sequences, FiniteSets, TLC

(***************************************************************************)
(* Bounds of the model.                                                    *)
(***************************************************************************)
\* largest exponent: secret key and encryption randomness drawn by keygen, pow(n)
MaxExp == 2
\* largest scalar handed to eval_scal
MaxScal == 5
\* the unreduced forms handed to the form operations have |b| and one of a, c up to this
MaxCoef == 2
\* number of form operations run one after the other on the same context
MaxOps == 2
\* largest coefficient of a form handed to the form operations (products of
\* three coefficients stay below 2^31)
MaxInput == 100

(***************************************************************************)
(* Mpz helpers.                                                            *)
(***************************************************************************)
Abs(x) == IF x < 0 THEN -x ELSE x

\* mpz_fdiv_q: quotient rounded towards minus infinity (divisor > 0 here)
FDivQ(n, d) == n \div d

\* mpz_fdiv_r / mod_floor
FDivR(n, d) == n % d

RECURSIVE Gcd(_, _)
Gcd(x, y) == IF y = 0 THEN Abs(x) ELSE Gcd(y, x % Abs(y))

\* ffi::three_gcd(out, x, y, z) = gcd(gcd(x, y), z), non-negative
ThreeGcd(x, y, z) == Gcd(Gcd(x, y), z)

\* extended Euclid: <<d, u, v>> with u*a + v*m = d = gcd(a, m), for m > 0
RECURSIVE ExtGcd(_, _)
ExtGcd(a, m) ==
    IF m = 0 THEN <<Abs(a), IF a >= 0 THEN 1 ELSE -1, 0>>
    ELSE LET r == ExtGcd(m, a % m)
         IN  <<r[1], r[3], r[2] - (a \div m) * r[3]>>

\* Mpz::invert(k, p): the inverse of k modulo p in [0, p), or None (-1 here)
Invert(k, p) ==
    IF \E x \in 0..(p - 1) : (k * x) % p = 1 % p
    THEN CHOOSE x \in 0..(p - 1) : (k * x) % p = 1 % p
    ELSE -1

(***************************************************************************)
(* Forms: GmpClassGroup {a, b, c, discriminant}.                           *)
(***************************************************************************)
Form(a, b, c, d) == [a |-> a, b |-> b, c |-> c, discriminant |-> d]

\* ClassGroup::from_ab_discriminant: c = (b^2 - discriminant) / (4a), no reduction
from_ab_discriminant(a, b, d) == Form(a, b, FDivQ(b * b - d, 4 * a), d)

Disc(F) == F.b * F.b - 4 * F.a * F.c

\* assert_valid: the stored discriminant is the discriminant of (a, b, c)
IsValid(F) == F.a > 0 /\ F.discriminant < 0 /\ Disc(F) = F.discriminant

IsReduced(F) ==
    /\ Abs(F.b) <= F.a
    /\ F.a <= F.c
    /\ (Abs(F.b) = F.a \/ F.a = F.c) => F.b >= 0

IsPrimitive(F) == ThreeGcd(F.a, F.b, F.c) = 1

\* PartialEq of GmpClassGroup
FormEq(F, G) == F.a = G.a /\ F.b = G.b /\ F.c = G.c /\ F.discriminant = G.discriminant

\* principal_ideal_class(delta) = from_ab_discriminant(1, 1, delta)
principal_ideal_class(delta) == from_ab_discriminant(1, 1, delta)


(***************************************************************************)
(* Reduction (inner_normalize, inner_reduce).                              *)
(***************************************************************************)
\* normalize to -a < b <= a: r = floor((a - b) / (2a)), b += 2ra, c = ar^2 + b_old r + c
inner_normalize(F) ==
    LET r == FDivQ(F.a - F.b, 2 * F.a)
    IN  [F EXCEPT !.b = F.b + 2 * r * F.a,
                  !.c = F.a * r * r + F.b * r + F.c]

\* loop condition of inner_reduce
NotYetReduced(F) == F.a > F.c \/ (F.a = F.c /\ F.b < 0)

\* one loop iteration: swap a and c, negate b, normalize again
reduce_step(F) == inner_normalize([F EXCEPT !.a = F.c, !.b = -F.b, !.c = F.a])

\* final fix after the loop
reduce_final(F) ==
    LET F1 == IF F.a = F.c /\ F.b < 0 THEN [F EXCEPT !.b = -F.b] ELSE F
    IN  IF Abs(F1.b) = F1.a /\ F1.b < 0 THEN [F1 EXCEPT !.b = -F1.b] ELSE F1

\* what is left of a form when an assertion fails or a division by zero aborts
PanicForm == Form(0, 0, 0, 0)

\* the loop; the normalization of an iteration divides by 2c
RECURSIVE reduce_loop(_)
reduce_loop(F) ==
    IF ~NotYetReduced(F) THEN F
    ELSE IF F.c = 0 THEN PanicForm
    ELSE reduce_loop(reduce_step(F))

\* inner_reduce; the first normalization divides by 2a
inner_reduce(F) ==
    IF F.a = 0 THEN PanicForm
    ELSE reduce_final(reduce_loop(inner_normalize(F)))

(***************************************************************************)
(* Linear congruence solver: a*mu = b (mod m).                             *)
(***************************************************************************)
\* [ok, mu, v, g]: g = gcd(a, m); ok iff g | b; mu = u*(b/g) mod (m/g); v = m/g
solve_linear_congruence(a, b, m) ==
    LET e == ExtGcd(a, m)
        d == e[1]
    IN  IF b % d # 0
        THEN [ok |-> FALSE, mu |-> 0, v |-> FDivQ(m, d), g |-> d]
        ELSE [ok |-> TRUE,
              mu |-> (e[2] * FDivQ(b, d)) % FDivQ(m, d),
              v |-> FDivQ(m, d),
              g |-> d]

(***************************************************************************)
(* Ctx: the scratch integers inner_multiply2 works in.  g is               *)
(* ctx.congruence_context.g, which the solver also uses.                   *)
(***************************************************************************)
ZeroCtx ==
    [g |-> 0, h |-> 0, w |-> 0, s |-> 0, t |-> 0, u |-> 0, a |-> 0, b |-> 0,
     m |-> 0, mu |-> 0, v |-> 0, lambda |-> 0, sigma |-> 0, k |-> 0, l |-> 0]

\* the integers one call of inner_multiply2 reads and writes: the fields of
\* self and rhs and the slots of ctx.  no_solution is set when the solver fails.
Regs(F, G, c) ==
    [self_a |-> F.a, self_b |-> F.b, self_c |-> F.c,
     rhs_a |-> G.a, rhs_b |-> G.b, rhs_c |-> G.c,
     g |-> c.g, h |-> c.h, w |-> c.w, s |-> c.s, t |-> c.t, u |-> c.u,
     a |-> c.a, b |-> c.b, m |-> c.m, mu |-> c.mu, v |-> c.v,
     lambda |-> c.lambda, sigma |-> c.sigma, k |-> c.k, l |-> c.l,
     no_solution |-> 0]

RegsCtx(st) ==
    [g |-> st.g, h |-> st.h, w |-> st.w, s |-> st.s, t |-> st.t, u |-> st.u,
     a |-> st.a, b |-> st.b, m |-> st.m, mu |-> st.mu, v |-> st.v,
     lambda |-> st.lambda, sigma |-> st.sigma, k |-> st.k, l |-> st.l]

RegsSelf(st, d) == Form(st.self_a, st.self_b, st.self_c, d)

\* the three-address operations of ffi, on named integers
mpz_add(st, out, x, y) == [st EXCEPT ![out] = st[x] + st[y]]
mpz_sub(st, out, x, y) == [st EXCEPT ![out] = st[x] - st[y]]
mpz_mul(st, out, x, y) == [st EXCEPT ![out] = st[x] * st[y]]
mpz_fdiv_q(st, out, x, y) == [st EXCEPT ![out] = FDivQ(st[x], st[y])]
mpz_fdiv_q_ui_self(st, out, n) == [st EXCEPT ![out] = FDivQ(st[out], n)]
mpz_set(st, out, x) == [st EXCEPT ![out] = st[x]]
\* out += x, out -= x, out *= x
add_assign(st, out, x) == [st EXCEPT ![out] = st[out] + st[x]]
sub_assign(st, out, x) == [st EXCEPT ![out] = st[out] - st[x]]
mul_assign(st, out, x) == [st EXCEPT ![out] = st[out] * st[x]]
three_gcd(st, out, x, y, z) == [st EXCEPT ![out] = ThreeGcd(st[x], st[y], st[z])]

\* the solver called on slots: writes mu and v, uses g for the gcd
solve_into(st, mu, v, a, b, m, r) ==
    [st EXCEPT !.g = r.g, ![mu] = r.mu, ![v] = r.v,
               !.no_solution = IF r.ok THEN st.no_solution ELSE 1]

ctx_solve_linear_congruence(st, mu, v, a, b, m) ==
    solve_into(st, mu, v, a, b, m, solve_linear_congruence(st[a], st[b], st[m]))

(***************************************************************************)
(* inner_multiply2, statement by statement, in the order of the source.    *)
(***************************************************************************)
\* variant: h = (b1 - b2) / 2, the operands of the subtraction exchanged
Mul2_gh_swapped(st) ==
    mpz_fdiv_q_ui_self(
    mpz_sub(
    mpz_fdiv_q_ui_self(
    mpz_add(st, "g", "self_b", "rhs_b"),
        "g", 2),
        "h", "self_b", "rhs_b"),
        "h", 2)

\* variant: h = b2 - b1, not halved
Mul2_gh_h_unhalved(st) ==
    mpz_sub(
    mpz_fdiv_q_ui_self(
    mpz_add(st, "g", "self_b", "rhs_b"),
        "g", 2),
        "h", "rhs_b", "self_b")

\* g = (b1 + b2) / 2, h = (b2 - b1) / 2
Mul2_gh(st) ==
    mpz_fdiv_q_ui_self(
    mpz_sub(
    mpz_fdiv_q_ui_self(
    mpz_add(st, "g", "self_b", "rhs_b"),
        "g", 2),
        "h", "rhs_b", "self_b"),
        "h", 2)

\* the two debug assertions on g and h
Mul2_gh_asserts(st) == st.h + st.g = st.rhs_b /\ st.g - st.h = st.self_b

\* variant: b = h*u + s*c2, rhs.c read in place of self.c
Mul2_wstu_rhs_c(st) ==
    mpz_mul(
    add_assign(
    mpz_mul(
    mpz_mul(
    mpz_mul(
    mpz_fdiv_q(
    mpz_fdiv_q(
    mpz_fdiv_q(
    three_gcd(st, "w", "self_a", "rhs_a", "g"),
        "s", "self_a", "w"),
        "t", "rhs_a", "w"),
        "u", "g", "w"),
        "a", "t", "u"),
        "b", "h", "u"),
        "m", "s", "rhs_c"),
        "b", "m"),
        "m", "s", "t")

\* w = gcd(a1, a2, g), s = a1/w, t = a2/w, u = g/w, a = t*u, b = h*u + s*c1, m = s*t
Mul2_wstu(st) ==
    mpz_mul(
    add_assign(
    mpz_mul(
    mpz_mul(
    mpz_mul(
    mpz_fdiv_q(
    mpz_fdiv_q(
    mpz_fdiv_q(
    three_gcd(st, "w", "self_a", "rhs_a", "g"),
        "s", "self_a", "w"),
        "t", "rhs_a", "w"),
        "u", "g", "w"),
        "a", "t", "u"),
        "b", "h", "u"),
        "m", "s", "self_c"),
        "b", "m"),
        "m", "s", "t")

\* solve a*mu = b (mod m) into mu, v
Mul2_solve_mu(st) == ctx_solve_linear_congruence(st, "mu", "v", "a", "b", "m")

\* variant: t*mu formed in the slot mu, which k still needs
Mul2_prep_lambda_in_mu(st) ==
    mpz_set(
    mpz_sub(
    mpz_mul(
    mpz_mul(st, "a", "t", "v"),
        "mu", "t", "mu"),
        "b", "h", "mu"),
        "m", "s")

\* a = t*v, b = h - t*mu, m = s
Mul2_prep_lambda(st) ==
    mpz_set(
    mpz_sub(
    mpz_mul(
    mpz_mul(st, "a", "t", "v"),
        "m", "t", "mu"),
        "b", "h", "m"),
        "m", "s")

\* solve a*lambda = b (mod m) into lambda, sigma
Mul2_solve_lambda(st) ==
    ctx_solve_linear_congruence(st, "lambda", "sigma", "a", "b", "m")

\* variant: k = mu + lambda, the factor v left out
Mul2_k_no_v(st) ==
    mpz_add(
    mpz_set(st, "a", "lambda"),
        "k", "mu", "a")

\* k = mu + v*lambda
Mul2_k(st) ==
    mpz_add(
    mpz_mul(st, "a", "v", "lambda"),
        "k", "mu", "a")

\* variant: l = (k*t + h)/s
Mul2_l_plus_h(st) ==
    mpz_fdiv_q(
    mpz_add(
    mpz_mul(st, "l", "k", "t"),
        "v", "l", "h"),
        "l", "v", "s")

\* l = (k*t - h)/s, with k*t - h left in v
Mul2_l(st) ==
    mpz_fdiv_q(
    mpz_sub(
    mpz_mul(st, "l", "k", "t"),
        "v", "l", "h"),
        "l", "v", "s")

\* m = (t*u*k - h*u - c1*s) / (s*t): the dividend in m, the divisor in a,
\* the quotient in lambda
Mul2_m(st) ==
    mpz_fdiv_q(
    mpz_mul(
    sub_assign(
    mpz_mul(
    sub_assign(
    mpz_mul(
    mul_assign(
    mpz_mul(st, "m", "t", "u"),
        "m", "k"),
        "a", "h", "u"),
        "m", "a"),
        "a", "self_c", "s"),
        "m", "a"),
        "a", "s", "t"),
        "lambda", "m", "a")

Mul2_klm(st) == Mul2_m(Mul2_l(Mul2_k(st)))

\* variant: C = k*l - w*ctx.m, the slot m read where the quotient m is in lambda
Mul2_ABC_m_slot(st) ==
    sub_assign(
    mpz_mul(
    mpz_mul(
    sub_assign(
    mpz_mul(
    sub_assign(
    mpz_mul(
    mpz_mul(
    mpz_mul(st, "self_a", "s", "t"),
        "self_b", "w", "u"),
        "a", "k", "t"),
        "self_b", "a"),
        "a", "l", "s"),
        "self_b", "a"),
        "self_c", "k", "l"),
        "a", "w", "m"),
        "self_c", "a")

\* A = s*t, B = w*u - k*t - l*s, C = k*l - w*m, written into self
Mul2_ABC(st) ==
    sub_assign(
    mpz_mul(
    mpz_mul(
    sub_assign(
    mpz_mul(
    sub_assign(
    mpz_mul(
    mpz_mul(
    mpz_mul(st, "self_a", "s", "t"),
        "self_b", "w", "u"),
        "a", "k", "t"),
        "self_b", "a"),
        "a", "l", "s"),
        "self_b", "a"),
        "self_c", "k", "l"),
        "a", "w", "lambda"),
        "self_c", "a")

\* the integers of the call right before inner_reduce
Mul2_regs(F, G, c) ==
    Mul2_ABC(Mul2_klm(Mul2_solve_lambda(Mul2_prep_lambda(Mul2_solve_mu(
        Mul2_wstu(Mul2_gh(Regs(F, G, c))))))))

\* self after the composition steps of inner_multiply2, before inner_reduce
Mul2_result(st, d) ==
    IF st.no_solution # 0 THEN PanicForm ELSE RegsSelf(st, d)

inner_multiply2_raw(F, G, c) == Mul2_result(Mul2_regs(F, G, c), F.discriminant)

\* inner_reduce as called at the end of inner_multiply2
Mul2_reduce(F) == IF F = PanicForm THEN PanicForm ELSE inner_reduce(F)

\* inner_multiply2(self = F, rhs = G): assert_valid on both, compose, reduce
inner_multiply2(F, G, c) ==
    IF ~(IsValid(F) /\ IsValid(G)) THEN PanicForm
    ELSE Mul2_reduce(inner_multiply2_raw(F, G, c))

(***************************************************************************)
(* The second copy of inner_multiply2 (the file without comments),         *)
(* statement by statement.                                                 *)
(***************************************************************************)
\* copy, lines 10-28: g, h, w, s, t, u and the first congruence's a, b, m
Copy2_wstu(st) ==
    mpz_mul(
    add_assign(
    mpz_mul(
    mpz_mul(
    mpz_mul(
    mpz_fdiv_q(
    mpz_fdiv_q(
    mpz_fdiv_q(
    three_gcd(
    mpz_fdiv_q_ui_self(
    mpz_sub(
    mpz_fdiv_q_ui_self(
    mpz_add(st, "g", "self_b", "rhs_b"),
        "g", 2),
        "h", "rhs_b", "self_b"),
        "h", 2),
        "w", "self_a", "rhs_a", "g"),
        "s", "self_a", "w"),
        "t", "rhs_a", "w"),
        "u", "g", "w"),
        "a", "t", "u"),
        "b", "h", "u"),
        "m", "s", "self_c"),
        "b", "m"),
        "m", "s", "t")

\* copy, lines 30-51: the two solves and the reassignment of a, b, m between them
Copy2_solves(st) ==
    ctx_solve_linear_congruence(
    mpz_set(
    mpz_sub(
    mpz_mul(
    mpz_mul(
    ctx_solve_linear_congruence(st, "mu", "v", "a", "b", "m"),
        "a", "t", "v"),
        "m", "t", "mu"),
        "b", "h", "m"),
        "m", "s"),
        "lambda", "sigma", "a", "b", "m")

\* copy, lines 53-67: k, l (k*t - h left in v) and m (the quotient in lambda)
Copy2_klm(st) ==
    mpz_fdiv_q(
    mpz_mul(
    sub_assign(
    mpz_mul(
    sub_assign(
    mpz_mul(
    mul_assign(
    mpz_mul(
    mpz_fdiv_q(
    mpz_sub(
    mpz_mul(
    mpz_add(
    mpz_mul(st, "a", "v", "lambda"),
        "k", "mu", "a"),
        "l", "k", "t"),
        "v", "l", "h"),
        "l", "v", "s"),
        "m", "t", "u"),
        "m", "k"),
        "a", "h", "u"),
        "m", "a"),
        "a", "self_c", "s"),
        "m", "a"),
        "a", "s", "t"),
        "lambda", "m", "a")

\* copy, lines 69-79: A, B, C written into self
Copy2_ABC(st) ==
    sub_assign(
    mpz_mul(
    mpz_mul(
    sub_assign(
    mpz_mul(
    sub_assign(
    mpz_mul(
    mpz_mul(
    mpz_mul(st, "self_a", "s", "t"),
        "self_b", "w", "u"),
        "a", "k", "t"),
        "self_b", "a"),
        "a", "l", "s"),
        "self_b", "a"),
        "self_c", "k", "l"),
        "a", "w", "lambda"),
        "self_c", "a")

\* copy, lines 10-79: self before the call of inner_reduce
Copy2_raw(F, G, c) ==
    Mul2_result(Copy2_ABC(Copy2_klm(Copy2_solves(Copy2_wstu(Regs(F, G, c))))),
                F.discriminant)

(***************************************************************************)
(* Group operations built on composition.                                  *)
(***************************************************************************)
\* self * rhs
Mul(F, G) == inner_multiply2(F, G, ZeroCtx)

\* inverse: (a, -b, c), reduced
inverse(F) ==
    IF ~IsValid(F) THEN PanicForm ELSE inner_reduce([F EXCEPT !.b = -F.b])

\* pow: square and multiply, most significant bit first, from the principal form
RECURSIVE pow(_, _)
pow(F, n) ==
    IF n = 0 THEN principal_ideal_class(F.discriminant)
    ELSE LET acc == pow(F, n \div 2)
             sq  == Mul(acc, acc)
         IN  IF n % 2 = 1 THEN Mul(sq, F) ELSE sq

(***************************************************************************)
(* Conversions between FE, BigInt and Mpz: through digit strings.          *)
(***************************************************************************)
\* to_str_radix(radix) of a non-negative integer: its digits, most significant first
RECURSIVE to_str_radix(_, _)
to_str_radix(n, radix) ==
    IF n < radix THEN <<n>>
    ELSE Append(to_str_radix(n \div radix, radix), n % radix)

\* from_str_radix(digits, radix)
RECURSIVE from_str_radix(_, _)
from_str_radix(digits, radix) ==
    IF Len(digits) = 0 THEN 0
    ELSE from_str_radix(SubSeq(digits, 1, Len(digits) - 1), radix) * radix
         + digits[Len(digits)]

\* into_mpz(f) = Mpz::from_str(f.to_bigint().to_str_radix(10))
into_mpz(f) == from_str_radix(to_str_radix(f, 10), 10)

\* Scalar::from(BigInt::from_str_radix(plaintext.to_str_radix(16), 16)): reduced mod q
to_FE(n, q) == from_str_radix(to_str_radix(n, 16), 16) % q

(***************************************************************************)
(* The f^m fast path and its discrete logarithm.                           *)
(***************************************************************************)
\* variant: k used in place of its inverse modulo p
expo_f_no_invert(p, delta, k) ==
    IF k = 0 THEN principal_ideal_class(delta)
    ELSE LET k_inv0 == k
             k_inv  == IF FDivR(k_inv0, 2) = 0 THEN k_inv0 - p ELSE k_inv0
             k_inv_p == k_inv * p
         IN  from_ab_discriminant(p * p, k_inv_p, delta)

\* variant: an even inverse kept as it is
expo_f_no_parity(p, delta, k) ==
    IF k = 0 THEN principal_ideal_class(delta)
    ELSE LET k_inv   == Invert(k, p)
             k_inv_p == k_inv * p
         IN  from_ab_discriminant(p * p, k_inv_p, delta)

\* expo_f(p, delta, k): the principal form for k = 0, else (p^2, L(k) p)
expo_f(p, delta, k) ==
    IF k = 0 THEN principal_ideal_class(delta)
    ELSE LET k_inv0 == Invert(k, p)
             k_inv  == IF FDivR(k_inv0, 2) = 0 THEN k_inv0 - p ELSE k_inv0
             k_inv_p == k_inv * p
         IN  from_ab_discriminant(p * p, k_inv_p, delta)

\* variant: b / p returned as it is
discrete_log_f_lk(p, delta, fm) ==
    IF FormEq(fm, principal_ideal_class(delta))
    THEN [panic |-> FALSE, value |-> 0]
    ELSE [panic |-> FALSE, value |-> FDivQ(fm.b, p)]

\* variant: without the comparison with the principal form
discrete_log_f_no_zero(p, delta, fm) ==
    LET lk     == FDivQ(fm.b, p)
        lk_inv == Invert(lk, p)
    IN  [panic |-> lk_inv = -1, value |-> lk_inv]

\* discrete_log_f(p, delta, fm): [panic, value]; panic is the unwrap of a None inverse
discrete_log_f(p, delta, fm) ==
    IF FormEq(fm, principal_ideal_class(delta))
    THEN [panic |-> FALSE, value |-> 0]
    ELSE LET lk     == FDivQ(fm.b, p)
             lk_inv == Invert(lk, p)
         IN  [panic |-> lk_inv = -1, value |-> lk_inv]

(***************************************************************************)
(* The CL protocol.  A group is [delta_k, generator]; q is the scalar      *)
(* field order q().                                                        *)
(***************************************************************************)
\* the groups of the model: q, delta_k as in new_1827 / new_3072, scaled down
GroupParams == { [q |-> 3, delta_k |-> -39], [q |-> 5, delta_k |-> -115] }

\* delta_p = delta_k * q^2
DeltaP(gp) == gp.delta_k * gp.q * gp.q

\* the (a, b) with a in 1..amax, |b| <= bmax that give a form of discriminant d
FormsUpTo(d, amax, bmax) ==
    { from_ab_discriminant(ab[1], ab[2], d) :
        ab \in { ab \in (1..amax) \X ((-bmax)..bmax) :
                    (ab[2] * ab[2] - d) % (4 * ab[1]) = 0 } }

\* all reduced forms of discriminant d (they have 3a^2 <= |d|)
ReducedForms(d) ==
    LET amax == CHOOSE a \in 1..(-d) : 3 * a * a <= -d /\ 3 * (a + 1) * (a + 1) > -d
    IN  { F \in FormsUpTo(d, amax, amax) : IsReduced(F) }

\* the generators a group may have: the primitive reduced forms, as the
\* generators of new_1827 and new_3072 are
Generators(d) == { F \in ReducedForms(d) : IsPrimitive(F) }

\* bigint_to_mpz: through the base 16 string
bigint_to_mpz(value) == from_str_radix(to_str_radix(value, 16), 16)

\* keygen with the sample it draws: (sk, pk = generator^sk)
keygen(group, sample) ==
    [sk |-> bigint_to_mpz(sample),
     pk |-> pow(group.generator, bigint_to_mpz(sample))]

\* pk_for_sk
pk_for_sk(group, sk) == pow(group.generator, sk)

\* encrypt with the randomness r that its keygen call samples: (ciphertext, r)
encrypt(group, q, public_key, m, r) ==
    LET m_mpz   == into_mpz(m)
        kp      == keygen(group, r)
        delta   == group.generator.discriminant
        exp_f   == expo_f(q, delta, m_mpz)
        h_exp_r == pow(public_key, kp.sk)
    IN  [ct |-> [c1 |-> kp.pk, c2 |-> Mul(h_exp_r, exp_f)], r |-> kp.sk]

\* variant: c1^sk not inverted
decrypt_no_inverse(group, q, secret_key, c) ==
    LET c1_x_inv == pow(c.c1, secret_key)
        tmp      == Mul(c.c2, c1_x_inv)
        dl       == discrete_log_f(q, group.generator.discriminant, tmp)
    IN  [panic |-> dl.panic,
         plaintext |-> dl.value,
         assert_ok |-> dl.panic \/ dl.value < q,
         fe |-> IF dl.panic THEN -1 ELSE to_FE(dl.value, q)]

\* decrypt: [panic, plaintext (before the conversion to FE), assert_ok, fe];
\* assert_ok is the debug_assert!(plaintext < q()) on a returned logarithm
decrypt(group, q, secret_key, c) ==
    LET c1_x_inv == inverse(pow(c.c1, secret_key))
        tmp      == Mul(c.c2, c1_x_inv)
        dl       == discrete_log_f(q, group.generator.discriminant, tmp)
    IN  [panic |-> dl.panic,
         plaintext |-> dl.value,
         assert_ok |-> dl.panic \/ dl.value < q,
         fe |-> IF dl.panic THEN -1 ELSE to_FE(dl.value, q)]

\* variant: r = 1
encrypt_without_r_one(group, q, m) ==
    LET r     == 1
        r_big == pk_for_sk(group, r)
        m_mpz == from_str_radix(to_str_radix(m, 10), 10)
        exp_f == expo_f(q, group.generator.discriminant, m_mpz)
    IN  [ct |-> [c1 |-> r_big, c2 |-> exp_f], r |-> r]

\* encrypt_without_r
encrypt_without_r(group, q, m) ==
    LET r     == 0
        r_big == pk_for_sk(group, r)
        m_mpz == from_str_radix(to_str_radix(m, 10), 10)
        exp_f == expo_f(q, group.generator.discriminant, m_mpz)
    IN  [ct |-> [c1 |-> r_big, c2 |-> exp_f], r |-> r]

\* variant: only c2 raised to the power
eval_scal_c2_only(c, val) == [c1 |-> c.c1, c2 |-> pow(c.c2, val)]

\* eval_scal
eval_scal(c, val) == [c1 |-> pow(c.c1, val), c2 |-> pow(c.c2, val)]

\* eval_sum
eval_sum(ca, cb) == [c1 |-> Mul(ca.c1, cb.c1), c2 |-> Mul(ca.c2, cb.c2)]

(***************************************************************************)
(* State.                                                                  *)
(***************************************************************************)
VARIABLES
    q,          \* q(): order of the scalar field
    group,      \* the CLGroup in use
    sk, pk,     \* the key pair of keygen
    ct,         \* the ciphertext under work
    ct2,        \* a second ciphertext, the other argument of eval_sum
    m, r,       \* plaintext and returned randomness of the call that made ct
    m2, r2,     \* the same for ct2
    val,        \* the scalar of eval_scal
    how,        \* which operation produced ct
    dec,        \* the result of decrypt
    pc,         \* position of the protocol run
    self,       \* the form inner_multiply2 / inner_reduce works on, in place
    rhs,        \* the other argument of inner_multiply2
    ctx,        \* the scratch context, kept from call to call
    self0,      \* self at the start of the running form operation
    op,         \* the running (or last) form operation
    nops,       \* number of form operations started
    fpc         \* position inside the running form operation

clvars   == <<q, group, sk, pk, ct, ct2, m, r, m2, r2, val, how, dec, pc>>
formvars == <<self, rhs, ctx, self0, op, nops, fpc>>
vars     == <<q, group, sk, pk, ct, ct2, m, r, m2, r2, val, how, dec, pc,
              self, rhs, ctx, self0, op, nops, fpc>>

NoForm == principal_ideal_class(-3)
NoCt   == [c1 |-> NoForm, c2 |-> NoForm]
NoDec  == [panic |-> FALSE, plaintext |-> -1, assert_ok |-> TRUE, fe |-> -1]

(***************************************************************************)
(* Protocol runs.                                                          *)
(***************************************************************************)
InitGroup ==
    \E gp \in GroupParams :
        /\ q = gp.q
        /\ \E g \in Generators(DeltaP(gp)) :
              group = [delta_k |-> gp.delta_k, generator |-> g]

InitCL ==
    /\ InitGroup
    /\ sk = 0 /\ pk = NoForm
    /\ ct = NoCt /\ ct2 = NoCt
    /\ m = 0 /\ r = 0 /\ m2 = 0 /\ r2 = 0 /\ val = 0
    /\ how = "none" /\ dec = NoDec
    /\ pc = "start"

FormIdle ==
    /\ self = NoForm /\ rhs = NoForm /\ self0 = NoForm
    /\ ctx = ZeroCtx /\ op = "none" /\ nops = 0 /\ fpc = "idle"

Init == InitCL /\ FormIdle

\* (sk, pk) = group.keygen()
Keygen ==
    /\ pc = "start"
    /\ \E s \in 0..MaxExp :
          LET kp == keygen(group, s)
          IN  sk' = kp.sk /\ pk' = kp.pk
    /\ pc' = "keyed"
    /\ UNCHANGED <<q, group, ct, ct2, m, r, m2, r2, val, how, dec>>
    /\ UNCHANGED formvars

\* (ct, r) = CLGroup::encrypt(group, pk, m)
Encrypt ==
    /\ pc = "keyed"
    /\ \E mm \in 0..(q - 1), rr \in 0..MaxExp :
          LET e == encrypt(group, q, pk, mm, rr)
          IN  ct' = e.ct /\ r' = e.r /\ m' = mm
    /\ how' = "encrypt"
    /\ pc' = "ct"
    /\ UNCHANGED <<q, group, sk, pk, ct2, m2, r2, val, dec>>
    /\ UNCHANGED formvars

\* (ct, r) = CLGroup::encrypt_without_r(group, m)
EncryptWithoutR ==
    /\ pc = "keyed"
    /\ \E mm \in 0..(q - 1) :
          LET e == encrypt_without_r(group, q, mm)
          IN  ct' = e.ct /\ r' = e.r /\ m' = mm
    /\ how' = "encrypt_without_r"
    /\ pc' = "ct"
    /\ UNCHANGED <<q, group, sk, pk, ct2, m2, r2, val, dec>>
    /\ UNCHANGED formvars

\* a second encryption under the same key: (ct2, r2) = CLGroup::encrypt(group, pk, m2)
EncryptSecond ==
    /\ pc = "ct" /\ how = "encrypt"
    /\ \E mm \in 0..(q - 1), rr \in 0..MaxExp :
          LET e == encrypt(group, q, pk, mm, rr)
          IN  ct2' = e.ct /\ r2' = e.r /\ m2' = mm
    /\ pc' = "ct2"
    /\ UNCHANGED <<q, group, sk, pk, ct, m, r, val, how, dec>>
    /\ UNCHANGED formvars

\* decrypt's argument c is any ciphertext: a pair of forms of the group's
\* discriminant that some other party made
Receive ==
    /\ pc = "keyed"
    /\ \E ca \in ReducedForms(group.generator.discriminant),
          cb \in ReducedForms(group.generator.discriminant) :
          ct' = [c1 |-> ca, c2 |-> cb]
    /\ how' = "received"
    /\ pc' = "ct"
    /\ UNCHANGED <<q, group, sk, pk, ct2, m, r, m2, r2, val, dec>>
    /\ UNCHANGED formvars

\* ct = CLGroup::eval_sum(ct, ct2)
EvalSum ==
    /\ pc = "ct2"
    /\ ct' = eval_sum(ct, ct2)
    /\ how' = "eval_sum"
    /\ pc' = "ct"
    /\ UNCHANGED <<q, group, sk, pk, ct2, m, r, m2, r2, val, dec>>
    /\ UNCHANGED formvars

\* ct = CLGroup::eval_scal(ct, val)
EvalScal ==
    /\ pc = "ct" /\ how = "encrypt"
    /\ \E v \in 0..MaxScal :
          /\ val' = v
          /\ ct' = eval_scal(ct, v)
    /\ how' = "eval_scal"
    /\ pc' = "ct"
    /\ UNCHANGED <<q, group, sk, pk, ct2, m, r, m2, r2, dec>>
    /\ UNCHANGED formvars

\* dec = CLGroup::decrypt(group, sk, ct)
Decrypt ==
    /\ pc = "ct"
    /\ dec' = decrypt(group, q, sk, ct)
    /\ pc' = "decrypted"
    /\ UNCHANGED <<q, group, sk, pk, ct, ct2, m, r, m2, r2, val, how>>
    /\ UNCHANGED formvars

Next ==
    \/ Keygen
    \/ Encrypt
    \/ EncryptWithoutR
    \/ EncryptSecond
    \/ Receive
    \/ EvalSum
    \/ EvalScal
    \/ Decrypt

Spec == Init /\ [][Next]_vars

(***************************************************************************)
(* Form operations, step by step, on self, rhs and the kept context.       *)
(***************************************************************************)
\* the forms handed to the operations: every reduced form, the valid forms
\* (a, b, c) with small a and |b|, and those turned round, (c, b, a)
InputForms(d) ==
    ReducedForms(d)
    \cup FormsUpTo(d, MaxCoef, MaxCoef)
    \cup { Form(F.c, F.b, F.a, d) :
               F \in { F \in FormsUpTo(d, MaxCoef, MaxCoef) : F.c <= MaxInput } }

InitForm ==
    /\ \E gp \in GroupParams :
          /\ q = gp.q
          /\ group = [delta_k |-> gp.delta_k,
                      generator |-> principal_ideal_class(DeltaP(gp))]
          /\ self \in InputForms(DeltaP(gp))
          /\ rhs \in InputForms(DeltaP(gp))
    /\ sk = 0 /\ pk = NoForm
    /\ ct = NoCt /\ ct2 = NoCt
    /\ m = 0 /\ r = 0 /\ m2 = 0 /\ r2 = 0 /\ val = 0
    /\ how = "none" /\ dec = NoDec
    /\ pc = "forms"
    /\ self0 = self /\ ctx = ZeroCtx /\ op = "none" /\ nops = 0 /\ fpc = "idle"

\* a form operation may start
CanStart == fpc = "idle" /\ nops < MaxOps

\* inner_multiply2 lines 11-23: the assertions on the arguments, then g and h
\* and the two debug assertions; a debug assertion that fails aborts in a
\* build with debug assertions and is not evaluated in a build without
MulHalve ==
    /\ CanStart
    /\ op' = "mul" /\ nops' = nops + 1 /\ self0' = self
    /\ IF IsValid(self) /\ IsValid(rhs)
       THEN /\ ctx' = RegsCtx(Mul2_gh(Regs(self, rhs, ctx)))
            /\ fpc' \in IF Mul2_gh_asserts(Mul2_gh(Regs(self, rhs, ctx)))
                         THEN {"gh"}
                         ELSE {"gh", "panic"}
       ELSE ctx' = ctx /\ fpc' = "panic"
    /\ UNCHANGED <<self, rhs>>
    /\ UNCHANGED clvars

\* lines 25-50: w, s, t, u and the first congruence's a, b, m
MulGcd ==
    /\ fpc = "gh"
    /\ ctx' = RegsCtx(Mul2_wstu(Regs(self, rhs, ctx)))
    /\ fpc' = "wstu"
    /\ UNCHANGED <<self, rhs, self0, op, nops>>
    /\ UNCHANGED clvars

\* lines 52-59: the first solve
MulSolveMu ==
    /\ fpc = "wstu"
    /\ ctx' = RegsCtx(Mul2_solve_mu(Regs(self, rhs, ctx)))
    /\ fpc' = IF Mul2_solve_mu(Regs(self, rhs, ctx)).no_solution = 0
              THEN "mu" ELSE "NoSolution"
    /\ UNCHANGED <<self, rhs, self0, op, nops>>
    /\ UNCHANGED clvars

\* lines 61-69: the second congruence's a, b, m
MulPrepLambda ==
    /\ fpc = "mu"
    /\ ctx' = RegsCtx(Mul2_prep_lambda(Regs(self, rhs, ctx)))
    /\ fpc' = "prep"
    /\ UNCHANGED <<self, rhs, self0, op, nops>>
    /\ UNCHANGED clvars

\* lines 71-78: the second solve
MulSolveLambda ==
    /\ fpc = "prep"
    /\ ctx' = RegsCtx(Mul2_solve_lambda(Regs(self, rhs, ctx)))
    /\ fpc' = IF Mul2_solve_lambda(Regs(self, rhs, ctx)).no_solution = 0
              THEN "lambda" ELSE "NoSolution"
    /\ UNCHANGED <<self, rhs, self0, op, nops>>
    /\ UNCHANGED clvars

\* lines 80-98: k, l and m
MulKLM ==
    /\ fpc = "lambda"
    /\ ctx' = RegsCtx(Mul2_klm(Regs(self, rhs, ctx)))
    /\ fpc' = "klm"
    /\ UNCHANGED <<self, rhs, self0, op, nops>>
    /\ UNCHANGED clvars

\* variant: returns after writing A, B, C, without the call of inner_reduce
MulWrite_no_reduce ==
    /\ fpc = "klm"
    /\ self' = RegsSelf(Mul2_ABC(Regs(self, rhs, ctx)), self.discriminant)
    /\ ctx' = RegsCtx(Mul2_ABC(Regs(self, rhs, ctx)))
    /\ fpc' = "idle"
    /\ UNCHANGED <<rhs, self0, op, nops>>
    /\ UNCHANGED clvars

\* lines 100-113: A, B, C written into self
MulWrite ==
    /\ fpc = "klm"
    /\ self' = RegsSelf(Mul2_ABC(Regs(self, rhs, ctx)), self.discriminant)
    /\ ctx' = RegsCtx(Mul2_ABC(Regs(self, rhs, ctx)))
    /\ fpc' = "ABC"
    /\ UNCHANGED <<rhs, self0, op, nops>>
    /\ UNCHANGED clvars

\* a call of reduce on self
ReduceCall ==
    /\ CanStart
    /\ op' = "reduce" /\ nops' = nops + 1 /\ self0' = self
    /\ fpc' = "reduce"
    /\ UNCHANGED <<self, rhs, ctx>>
    /\ UNCHANGED clvars

\* inverse: negate b, then reduce
InverseCall ==
    /\ CanStart
    /\ op' = "inverse" /\ nops' = nops + 1 /\ self0' = self
    /\ self' = [self EXCEPT !.b = -self.b]
    /\ fpc' = "reduce"
    /\ UNCHANGED <<rhs, ctx>>
    /\ UNCHANGED clvars

\* pow(n), as one step
PowCall ==
    /\ CanStart
    /\ op' = "pow" /\ nops' = nops + 1 /\ self0' = self
    /\ \E n \in 0..MaxExp : self' = pow(self, n) /\ val' = n
    /\ fpc' = "idle"
    /\ UNCHANGED <<rhs, ctx>>
    /\ UNCHANGED <<q, group, sk, pk, ct, ct2, m, r, m2, r2, how, dec, pc>>

\* inner_reduce: the first normalization (line 115 for a composition)
ReduceNormalize ==
    /\ fpc \in {"ABC", "reduce"}
    /\ IF self.a = 0
       THEN self' = PanicForm /\ fpc' = "panic"
       ELSE self' = inner_normalize(self) /\ fpc' = "loop"
    /\ UNCHANGED <<rhs, ctx, self0, op, nops>>
    /\ UNCHANGED clvars

\* variant: an iteration that negates b and normalizes, a and c not exchanged
ReduceStep_no_swap ==
    /\ fpc = "loop"
    /\ NotYetReduced(self)
    /\ self' = inner_normalize([self EXCEPT !.b = -self.b])
    /\ fpc' = "loop"
    /\ UNCHANGED <<rhs, ctx, self0, op, nops>>
    /\ UNCHANGED clvars

\* inner_reduce: one iteration of the loop
ReduceStep ==
    /\ fpc = "loop"
    /\ NotYetReduced(self)
    /\ IF self.c = 0
       THEN self' = PanicForm /\ fpc' = "panic"
       ELSE self' = reduce_step(self) /\ fpc' = "loop"
    /\ UNCHANGED <<rhs, ctx, self0, op, nops>>
    /\ UNCHANGED clvars

\* inner_reduce: the loop is left, the final fix, return
ReduceReturn ==
    /\ fpc = "loop"
    /\ ~NotYetReduced(self)
    /\ self' = reduce_final(self)
    /\ fpc' = "idle"
    /\ UNCHANGED <<rhs, ctx, self0, op, nops>>
    /\ UNCHANGED clvars

NextForm ==
    \/ MulHalve
    \/ MulGcd
    \/ MulSolveMu
    \/ MulPrepLambda
    \/ MulSolveLambda
    \/ MulKLM
    \/ MulWrite
    \/ ReduceCall
    \/ InverseCall
    \/ PowCall
    \/ ReduceNormalize
    \/ ReduceStep
    \/ ReduceReturn

SpecForm == InitForm /\ [][NextForm]_vars

\* inner_reduce is straight-line code around one loop, run by the caller's
\* thread: once called, its next statement is executed
FairSpecForm ==
    /\ SpecForm
    /\ WF_vars(ReduceNormalize)
    /\ WF_vars(ReduceStep)
    /\ WF_vars(ReduceReturn)

(***************************************************************************)
(* Properties of the protocol (checked under Spec).                        *)
(***************************************************************************)
\* the discriminant of the group in use
Delta == group.generator.discriminant

\* ct was produced by operation h and has been decrypted
Decrypted(h) == pc = "decrypted" /\ how = h

C2_AdditiveHomomorphism ==
    Decrypted("eval_sum") => ~dec.panic /\ dec.fe = (m + m2) % q

\* a decrypted sum whose plaintexts are not 0 and add up to 0 modulo q
C2_Witness ==
    /\ Decrypted("eval_sum")
    /\ sk > 0 /\ r > 0 /\ r2 > 0
    /\ m > 0 /\ m2 > 0 /\ (m + m2) % q = 0
    /\ pk # principal_ideal_class(Delta)
    /\ dec.fe = 0

\* C3: an encryption of m raised to the scalar v (both c1 and c2) decrypts to
\* (v * m) mod q, also for v = 0 and for v * m = 0 (mod q).
C3_ScalarHomomorphism ==
    Decrypted("eval_scal") => ~dec.panic /\ dec.fe = (val * m) % q

\* a decrypted scalar multiple with v = q, so v * m = 0 (mod q) with v, m not 0
C3_Witness ==
    /\ Decrypted("eval_scal")
    /\ sk > 0 /\ r > 0 /\ m > 0 /\ val = q
    /\ pk # principal_ideal_class(Delta)
    /\ dec.fe = 0

\* ct.c2 is the value expo_f returned for m
HoldsExpoF == how = "encrypt_without_r" /\ pc \in {"ct", "decrypted"}

\* C4: discrete_log_f undoes expo_f on [0, q): 0 goes to the principal form and
\* back to 0; for m # 0 the b coefficient is an exact multiple L*q of q and the
\* inverse of L modulo q is m, also when L is negative.
C4_ExpoDlogRoundTrip ==
    HoldsExpoF =>
        /\ discrete_log_f(q, Delta, ct.c2) = [panic |-> FALSE, value |-> m]
        /\ m = 0 => ct.c2 = Form(1, 1, (1 - Delta) \div 4, Delta)
        /\ m # 0 => /\ ct.c2.b % q = 0
                    /\ Invert(ct.c2.b \div q, q) = m

\* expo_f returned a form whose L was made negative by the parity step
C4_Witness ==
    /\ HoldsExpoF
    /\ m # 0 /\ m # 1 /\ m # q - 1
    /\ ct.c2.b < 0
    /\ discrete_log_f(q, Delta, ct.c2).value = m

\* L is odd, |L| < q and L * k = 1 (mod q)
IsL(L, k) == L % 2 = 1 /\ Abs(L) < q /\ (L * k) % q = 1

\* C10: encrypt_without_r returns r = 0, c1 the principal form and c2 the form
\* f^m: the principal form for m = 0, else (q^2, L(m) q) of discriminant Delta;
\* so the ciphertext depends on the group and m only; every secret key
\* decrypts it to m.
C10_EncryptWithoutR ==
    how = "encrypt_without_r" =>
        /\ r = 0
        /\ ct.c1 = Form(1, 1, (1 - Delta) \div 4, Delta)
        /\ m = 0 => ct.c2 = Form(1, 1, (1 - Delta) \div 4, Delta)
        /\ m # 0 => /\ ct.c2.a = q * q
                    /\ ct.c2.b % q = 0
                    /\ IsL(ct.c2.b \div q, m)
                    /\ IsValid(ct.c2)
                    /\ ct.c2.discriminant = Delta
        /\ pc = "decrypted" => ~dec.panic /\ dec.fe = m

\* an encoding of m # 0 decrypted with a secret key that is not 0, in a group
\* whose generator is not the principal form
C10_Witness ==
    /\ Decrypted("encrypt_without_r")
    /\ m # 0 /\ sk > 1
    /\ pk # principal_ideal_class(Delta)
    /\ dec.fe = m

\* C11: whenever decrypt gets a logarithm back from discrete_log_f, for any
\* secret key and any ciphertext of two forms of the group's discriminant
\* (made by this program or received), the logarithm is in [0, q), so the
\* assertion plaintext < q holds.
C11_DecryptAssertion ==
    (pc = "decrypted" /\ ~dec.panic) =>
        /\ dec.plaintext >= 0
        /\ dec.plaintext < q
        /\ dec.assert_ok

\* a received ciphertext that no encryption under this key makes, decrypted
\* with a secret key that is not 0 to a logarithm that is not 0
C11_Witness ==
    /\ Decrypted("received")
    /\ ~dec.panic
    /\ sk > 0
    /\ ct.c1 # principal_ideal_class(Delta)
    /\ ~IsPrimitive(ct.c2)
    /\ dec.plaintext > 0 /\ dec.plaintext < q

\* C12: for k in [1, q), expo_f(q, Delta, k) is the form with a = q^2 and
\* b = L(k) q, L(k) = k^-1 mod q if that is odd and (k^-1 mod q) - q if not;
\* L(k) is odd, |b| < a, 4a divides b^2 - Delta, and the discriminant of the
\* form is Delta.
C12_ExpoFShape ==
    (how = "encrypt_without_r" /\ m # 0) =>
        LET k_inv == CHOOSE x \in 0..(q - 1) : (x * m) % q = 1
            L     == IF k_inv % 2 = 1 THEN k_inv ELSE k_inv - q
        IN  /\ ct.c2.a = q * q
            /\ ct.c2.b = L * q
            /\ L % 2 = 1
            /\ Abs(ct.c2.b) < ct.c2.a
            /\ (ct.c2.b * ct.c2.b - Delta) % (4 * ct.c2.a) = 0
            /\ ct.c2.b * ct.c2.b - 4 * ct.c2.a * ct.c2.c = Delta
            /\ ct.c2.discriminant = Delta

\* expo_f acted on a k whose inverse modulo q is even: q was subtracted
C12_Witness ==
    /\ how = "encrypt_without_r"
    /\ m # 0
    /\ (CHOOSE x \in 0..(q - 1) : (x * m) % q = 1) % 2 = 0
    /\ ct.c2.a = q * q
    /\ ct.c2.b < 0

(***************************************************************************)
(* Properties of the form operations (checked under SpecForm).             *)
(***************************************************************************)
\* a composition has returned
MulReturned == op = "mul" /\ fpc = "idle"

\* C5: every form the operations leave, at every step (the arguments, the triple
\* written before inner_reduce, each normalization and loop iteration of the
\* reduction, the results of inverse and pow) has the discriminant of the group.
C5_DiscriminantPreserved ==
    /\ fpc \notin {"panic", "NoSolution"}
    /\ self.discriminant = Delta /\ Disc(self) = Delta
    /\ rhs.discriminant = Delta /\ Disc(rhs) = Delta

\* the triple (A, B, C) of a composition, before inner_reduce, not reduced and
\* different from both arguments
C5_Witness ==
    /\ fpc = "ABC"
    /\ nops = MaxOps
    /\ self # self0 /\ self # rhs
    /\ ~IsReduced(self)
    /\ self.a > self.c
    /\ Disc(self) = Delta

\* C6: composing a reduced form with the principal form, on either side,
\* returns that form.
C6_PrincipalIsIdentity ==
    MulReturned =>
        /\ (IsReduced(self0) /\ rhs = Form(1, 1, (1 - Delta) \div 4, Delta))
              => self = self0
        /\ (IsReduced(rhs) /\ self0 = Form(1, 1, (1 - Delta) \div 4, Delta))
              => self = rhs

\* a reduced form that is not the principal form, composed with the principal form
C6_Witness ==
    /\ MulReturned
    /\ IsReduced(self0)
    /\ self0.a > 1 /\ self0.b < 0
    /\ rhs = Form(1, 1, (1 - Delta) \div 4, Delta)
    /\ self = self0

\* C7: for reduced arguments the composition with the arguments exchanged
\* returns the same reduced triple.
C7_Commutative ==
    (MulReturned /\ IsReduced(self0) /\ IsReduced(rhs))
        => self = inner_multiply2(rhs, self0, ZeroCtx)

\* two different reduced forms, neither the principal form, with different a
C7_Witness ==
    /\ MulReturned
    /\ IsReduced(self0) /\ IsReduced(rhs)
    /\ self0.a > 1 /\ rhs.a > 1 /\ self0.a # rhs.a
    /\ self0.b # rhs.b /\ self0.b # -rhs.b
    /\ self = inner_multiply2(rhs, self0, ZeroCtx)

\* C8: the composition of two reduced forms returns a reduced form.
C8_ProductReduced ==
    (MulReturned /\ IsReduced(self0) /\ IsReduced(rhs)) => IsReduced(self)

\* a composition of reduced forms whose reduction ran the loop: the result is
\* neither argument and not the principal form
C8_Witness ==
    /\ MulReturned
    /\ IsReduced(self0) /\ IsReduced(rhs)
    /\ self # self0 /\ self # rhs /\ self.a > 1
    /\ self0.a * rhs.a > self.a
    /\ IsReduced(self)

PrimitiveMul ==
    /\ op = "mul"
    /\ IsReduced(self0) /\ IsReduced(rhs)
    /\ self0.discriminant = rhs.discriminant
    /\ IsPrimitive(self0) \/ IsPrimitive(rhs)

\* C13: in a composition of two reduced forms of the same discriminant, one of
\* them at least primitive, gcd(t u, s t) divides h u + s c1 and gcd(t v, s)
\* divides h - t mu, so neither solve fails; s divides k t - h and s t divides
\* t u k - h u - c1 s, l and m being these quotients; and the B written is
\* w u - k t - l s = b2 - 2 k t.
C13_ExactComposition ==
    PrimitiveMul =>
        /\ fpc \notin {"panic", "NoSolution"}
        /\ fpc = "wstu" =>
              (ctx.h * ctx.u + ctx.s * self0.c) % Gcd(ctx.t * ctx.u, ctx.s * ctx.t) = 0
        /\ fpc = "mu" =>
              (ctx.h - ctx.t * ctx.mu) % Gcd(ctx.t * ctx.v, ctx.s) = 0
        /\ fpc = "klm" =>
              /\ (ctx.k * ctx.t - ctx.h) % ctx.s = 0
              /\ ctx.l * ctx.s = ctx.k * ctx.t - ctx.h
              /\ (ctx.t * ctx.u * ctx.k - ctx.h * ctx.u - self0.c * ctx.s)
                     % (ctx.s * ctx.t) = 0
              /\ ctx.lambda * ctx.s * ctx.t
                     = ctx.t * ctx.u * ctx.k - ctx.h * ctx.u - self0.c * ctx.s
        /\ fpc = "ABC" =>
              /\ self.b = ctx.w * ctx.u - ctx.k * ctx.t - ctx.l * ctx.s
              /\ self.b = rhs.b - 2 * ctx.k * ctx.t

\* B has been written in a composition of a primitive form with a form that
\* is not primitive, with k, l and h not 0
C13_Witness ==
    /\ PrimitiveMul
    /\ fpc = "ABC"
    /\ ~(IsPrimitive(self0) /\ IsPrimitive(rhs))
    /\ ctx.k # 0 /\ ctx.l # 0 /\ ctx.h # 0
    /\ ctx.s > 1 /\ ctx.t > 1
    /\ self.b = rhs.b - 2 * ctx.k * ctx.t

\* C15: for two valid forms of the same discriminant = 1 (mod 4), the floor
\* halvings are exact, 2g = b1 + b2 and 2h = b2 - b1, for every sign of b1 and
\* b2; the debug assertions h + g = b2 and g - h = b1 hold, so no call stops
\* at them; when rhs equals self, h = 0 and g = b1.
C15_HalvingsExact ==
    (op = "mul" /\ IsValid(self0) /\ IsValid(rhs)
                /\ self0.discriminant = rhs.discriminant
                /\ self0.discriminant % 4 = 1) =>
        /\ fpc # "panic"
        /\ fpc = "gh" =>
              /\ 2 * ctx.g = self.b + rhs.b
              /\ 2 * ctx.h = rhs.b - self.b
              /\ ctx.h + ctx.g = rhs.b
              /\ ctx.g - ctx.h = self.b
              /\ rhs = self => (ctx.h = 0 /\ ctx.g = self.b)

\* g and h have been set for two different forms with negative b
C15_Witness ==
    /\ op = "mul" /\ fpc = "gh"
    /\ IsValid(self) /\ IsValid(rhs)
    /\ self.b < 0 /\ rhs.b < 0 /\ self.b < rhs.b
    /\ ctx.g < 0 /\ ctx.h > 0
    /\ ctx.h + ctx.g = rhs.b /\ ctx.g - ctx.h = self.b

\* the values the formulas of the composition name, from the arguments
\* (self as it was at the call) with floor division
PureG == FDivQ(self0.b + rhs.b, 2)
PureH == FDivQ(rhs.b - self0.b, 2)
PureW == ThreeGcd(self0.a, rhs.a, PureG)
PureS == FDivQ(self0.a, PureW)
PureT == FDivQ(rhs.a, PureW)
PureU == FDivQ(PureG, PureW)

\* the slots h, w, s, t, u hold the values of the formulas
LiveHWSTU ==
    /\ ctx.h = PureH /\ ctx.w = PureW
    /\ ctx.s = PureS /\ ctx.t = PureT /\ ctx.u = PureU

\* the two solves of the formulas, from values the slots still hold
FirstSolve ==
    solve_linear_congruence(ctx.t * ctx.u, ctx.h * ctx.u + ctx.s * self0.c,
                            ctx.s * ctx.t)

SecondSolve ==
    solve_linear_congruence(ctx.t * FirstSolve.v, ctx.h - ctx.t * FirstSolve.mu,
                            ctx.s)

\* k, l, m of the formulas
PureK == FirstSolve.mu + FirstSolve.v * SecondSolve.mu
PureL == FDivQ(PureK * ctx.t - ctx.h, ctx.s)
PureM == FDivQ(ctx.t * ctx.u * PureK - ctx.h * ctx.u - self0.c * ctx.s,
               ctx.s * ctx.t)

\* C16: through the in-place steps of a composition every slot holds, as long
\* as it is read, the value the formulas name: u is g / w although the solver
\* then leaves its gcd in g; a, b, m are the first congruence's, then the
\* second's; k = mu + v lambda with the v and lambda of the solves, although v
\* is then k t - h and lambda the quotient m; and the triple written before
\* reduction is A = s t, B = w u - k t - l s, C = k l - w m of the formulas
\* with floor division, whatever the context held at the call.  The second
\* copy of the routine writes the same triple.
C16_SlotReuse ==
    (op = "mul" /\ IsValid(self0) /\ IsValid(rhs)
                /\ self0.discriminant = rhs.discriminant) =>
        /\ fpc = "gh" => ctx.g = PureG /\ ctx.h = PureH
        /\ fpc = "wstu" =>
              /\ LiveHWSTU /\ ctx.g = PureG
              /\ ctx.a = PureT * PureU
              /\ ctx.b = PureH * PureU + PureS * self0.c
              /\ ctx.m = PureS * PureT
        /\ fpc = "mu" =>
              /\ LiveHWSTU
              /\ ctx.mu = FirstSolve.mu /\ ctx.v = FirstSolve.v
              /\ ctx.g = FirstSolve.g
        /\ fpc = "prep" =>
              /\ LiveHWSTU
              /\ ctx.mu = FirstSolve.mu /\ ctx.v = FirstSolve.v
              /\ ctx.a = PureT * FirstSolve.v
              /\ ctx.b = PureH - PureT * FirstSolve.mu
              /\ ctx.m = PureS
        /\ fpc = "lambda" =>
              /\ LiveHWSTU
              /\ ctx.mu = FirstSolve.mu /\ ctx.v = FirstSolve.v
              /\ ctx.lambda = SecondSolve.mu /\ ctx.sigma = SecondSolve.v
        /\ fpc = "klm" =>
              /\ LiveHWSTU
              /\ ctx.k = PureK /\ ctx.l = PureL /\ ctx.lambda = PureM
              /\ ctx.v = PureK * PureT - PureH
        /\ fpc = "ABC" =>
              /\ LiveHWSTU
              /\ ctx.k = PureK /\ ctx.l = PureL /\ ctx.lambda = PureM
              /\ self.a = PureS * PureT
              /\ self.b = PureW * PureU - PureK * PureT - PureL * PureS
              /\ self.c = PureK * PureL - PureW * PureM
              /\ self = Copy2_raw(self0, rhs, ZeroCtx)

\* the triple has been written by a composition that started on a context
\* left by an earlier one, with the solver's gcd in g different from the g
\* that u was taken from, and v and lambda overwritten
C16_Witness ==
    /\ op = "mul" /\ fpc = "ABC" /\ nops = MaxOps
    /\ IsValid(self0) /\ IsValid(rhs)
    /\ ctx.g # PureG
    /\ ctx.v # FirstSolve.v
    /\ ctx.lambda # SecondSolve.mu
    /\ ctx.w > 1 /\ ctx.k # 0
    /\ self = Copy2_raw(self0, rhs, ZeroCtx)
    /\ self.b = PureW * PureU - PureK * PureT - PureL * PureS

(***************************************************************************)
(* Termination of the reduction (checked under FairSpecForm).              *)
(***************************************************************************)
\* max(a, |b|)
MaxAB(F) == IF F.a >= Abs(F.b) THEN F.a ELSE Abs(F.b)

\* a reduction is under way
Reducing == fpc \in {"ABC", "reduce", "loop"}

\* C14, as stated: every reduction that is started returns, and every
\* iteration of its loop strictly decreases max(a, |b|).
C14_EveryIterationDecreases ==
    /\ [][ReduceStep => MaxAB(self') < MaxAB(self)]_vars
    /\ Reducing ~> (fpc = "idle")

\* C14, amended: every reduction that is started returns; an iteration taken
\* with a > c strictly decreases max(a, |b|); the iteration taken with a = c
\* and b < 0 leaves a and c (and so max(a, |b|)) as they are, makes b
\* positive, and is the last one.  Every iteration strictly decreases
\* 2a + [b < 0].
C14_ReductionTerminates ==
    /\ [][ReduceStep =>
            /\ self.a > self.c => MaxAB(self') < MaxAB(self)
            /\ self.a = self.c =>
                  /\ self.b < 0
                  /\ self' = [self EXCEPT !.b = -self.b]
                  /\ MaxAB(self') = MaxAB(self)
                  /\ ~NotYetReduced(self')
            /\ 2 * self'.a + (IF self'.b < 0 THEN 1 ELSE 0)
                  < 2 * self.a + (IF self.b < 0 THEN 1 ELSE 0)]_vars
    /\ Reducing ~> (fpc = "idle")

\* the loop is at a normalized form with a = c and b < 0: the iteration that
\* follows does not decrease max(a, |b|)
C14_Witness ==
    /\ fpc = "loop"
    /\ IsValid(self)
    /\ self.a = self.c /\ self.b < 0
    /\ NotYetReduced(self)
    /\ MaxAB(reduce_step(self)) = MaxAB(self)
====
